---- MODULE Spec2Model ----
(***************************************************************************)
(* A model of api_to_sql.py: the JSON-to-SQL conversion json_to_sql and    *)
(* the collision-avoiding writer save_sql_to_file.                         *)
(*                                                                         *)
(* Text that the program processes character by character (string values,  *)
(* SQL literals) is a sequence of one-character strings.  Identifiers that *)
(* the program only copies (table names, keys, file names) are strings.    *)
(* The script json_to_sql returns is kept as the sequence of the pieces    *)
(* the code joins, each piece a record of its variable parts.              *)
(***************************************************************************)
EXTENDS Integers, Sequences, FiniteSets, TLC

VARIABLES json_data, table_name, now, sql_content, earlier, files, filename

vars == <<json_data, table_name, now, sql_content, earlier, files, filename>>

(***************************************************************************)
(* Bounds of the model.                                                    *)
(***************************************************************************)
\* most elements of an input array
MaxRecords == 2
\* most key/value pairs (a non-object element counts as one) in one input
MaxCells == 2
\* longest string tried on the paths that quote a string
MaxStrLen == 2
\* last reading of the clock
MaxClock == 1
\* most files in the directory save_sql_to_file writes to
MaxFiles == 4

(***************************************************************************)
(* Decoded JSON values (what response.json() returns).  Every value has    *)
(* the same fields; a kind uses the ones it needs.                         *)
(*   real: n is the value in hundredths (314 is 3.14)                      *)
(*   dict: keys in insertion order, vals the values at the same positions  *)
(*   list: vals the elements                                               *)
(***************************************************************************)
JValue(kind, b, n, s, keys, vals) ==
    [kind |-> kind, b |-> b, n |-> n, s |-> s, keys |-> keys, vals |-> vals]

JNull == JValue("null", FALSE, 0, <<>>, <<>>, <<>>)
JBool(b) == JValue("bool", b, 0, <<>>, <<>>, <<>>)
JInt(n) == JValue("int", FALSE, n, <<>>, <<>>, <<>>)
JReal(h) == JValue("real", FALSE, h, <<>>, <<>>, <<>>)
JStr(s) == JValue("str", FALSE, 0, s, <<>>, <<>>)
JDict(keys, vals) == JValue("dict", FALSE, 0, <<>>, keys, vals)
JList(vals) == JValue("list", FALSE, 0, <<>>, <<>>, vals)

\* isinstance(v, T) for the types the code tests; bool is a subclass of int
IsDict(v) == v.kind = "dict"
IsList(v) == v.kind = "list"
IsBool(v) == v.kind = "bool"
IsInt(v) == v.kind \in {"int", "bool"}
IsFloat(v) == v.kind = "real"
IsStr(v) == v.kind = "str"
IsNone(v) == v.kind = "null"

(***************************************************************************)
(* Text helpers.                                                           *)
(***************************************************************************)
Chars(str) ==
    CASE str = "NULL" -> <<"N", "U", "L", "L">>
      [] str = "None" -> <<"N", "o", "n", "e">>
      [] str = "True" -> <<"T", "r", "u", "e">>
      [] str = "False" -> <<"F", "a", "l", "s", "e">>
      [] str = "null" -> <<"n", "u", "l", "l">>
      [] str = "true" -> <<"t", "r", "u", "e">>
      [] str = "false" -> <<"f", "a", "l", "s", "e">>
      [] str = "id" -> <<"i", "d">>
      [] str = "name" -> <<"n", "a", "m", "e">>
      [] str = "k" -> <<"k">>

Digit(d) ==
    CASE d = 0 -> "0" [] d = 1 -> "1" [] d = 2 -> "2" [] d = 3 -> "3"
      [] d = 4 -> "4" [] d = 5 -> "5" [] d = 6 -> "6" [] d = 7 -> "7"
      [] d = 8 -> "8" [] d = 9 -> "9"

RECURSIVE IntChars(_)
\* str(n) of an int n >= 0, as characters
IntChars(n) ==
    IF n < 10 THEN <<Digit(n)>> ELSE Append(IntChars(n \div 10), Digit(n % 10))

\* str(x) of a float x >= 0 given in hundredths: shortest repr, one decimal at least
FloatChars(h) ==
    IntChars(h \div 100) \o <<".">> \o
    (IF h % 10 = 0 THEN <<Digit((h % 100) \div 10)>>
     ELSE <<Digit((h % 100) \div 10), Digit(h % 10)>>)

RECURSIVE Replace(_)
\* s.replace("'", "''")
Replace(s) ==
    IF s = <<>> THEN <<>>
    ELSE (IF Head(s) = "'" THEN <<"'", "'">> ELSE <<Head(s)>>) \o Replace(Tail(s))

RECURSIVE Join(_, _)
\* sep.join(parts) for parts that are character sequences
Join(parts, sep) ==
    IF parts = <<>> THEN <<>>
    ELSE IF Len(parts) = 1 THEN parts[1]
    ELSE parts[1] \o sep \o Join(Tail(parts), sep)

RECURSIVE Dumps(_)
\* json.dumps(v) with the default separators; the strings of the model hold
\* no character that json.dumps escapes
Dumps(v) ==
    CASE IsNone(v) -> Chars("null")
      [] IsBool(v) -> IF v.b THEN Chars("true") ELSE Chars("false")
      [] v.kind = "int" -> IntChars(v.n)
      [] IsFloat(v) -> FloatChars(v.n)
      [] IsStr(v) -> <<"\"">> \o v.s \o <<"\"">>
      [] IsList(v) ->
           <<"[">> \o Join([i \in 1..Len(v.vals) |-> Dumps(v.vals[i])], <<",", " ">>)
           \o <<"]">>
      [] IsDict(v) ->
           <<"{">> \o
           Join([i \in 1..Len(v.keys) |->
                   <<"\"">> \o Chars(v.keys[i]) \o <<"\"", ":", " ">> \o Dumps(v.vals[i])],
                <<",", " ">>)
           \o <<"}">>

\* str(v) of a value that is neither a dict nor a list
PyStr(v) ==
    CASE IsNone(v) -> Chars("None")
      [] IsBool(v) -> IF v.b THEN Chars("True") ELSE Chars("False")
      [] v.kind = "int" -> IntChars(v.n)
      [] IsFloat(v) -> FloatChars(v.n)
      [] IsStr(v) -> v.s

(***************************************************************************)
(* The script json_to_sql builds: the pieces it appends to sql_statements  *)
(* (or returns directly), in order.  A piece keeps the parts that vary:    *)
(*   header   "-- SQL generated ...\n-- Table: <table>\n-- Generated: <time>\n" *)
(*   create   "CREATE TABLE IF NOT EXISTS <table> (\n    <col> <type>,...\n);\n" *)
(*   blank    "\n"                                                         *)
(*   insert   "INSERT INTO <table> (<columns>) VALUES (<values>);\n"       *)
(*   nodata   "-- No data to insert\n"                                     *)
(*   simple   "-- Simple value detected\n"                                 *)
(***************************************************************************)
Piece(stmt, table, columns, types, values, time) ==
    [stmt |-> stmt, table |-> table, columns |-> columns, types |-> types,
     values |-> values, time |-> time]

\* the outcome of a call: pending (not called), returned (text), raised (error)
Pending == [status |-> "pending", text |-> <<>>, error |-> ""]
Returned(text) == [status |-> "returned", text |-> text, error |-> ""]
Raised(error) == [status |-> "raised", text |-> <<>>, error |-> error]

\* line 52: the header, stamped with datetime.now()
Header(table, t) == Piece("header", table, <<>>, <<>>, <<>>, t)

\* line 61
NoData == Piece("nodata", "", <<>>, <<>>, <<>>, 0)

\* position of key col in dict obj, 0 when absent
IndexOf(obj, col) ==
    IF \E i \in 1..Len(obj.keys) : obj.keys[i] = col
    THEN CHOOSE i \in 1..Len(obj.keys) : obj.keys[i] = col
    ELSE 0

\* obj.get(col, '') in place of obj.get(col, None)
GetOrEmpty(obj, col) ==
    IF IndexOf(obj, col) = 0 THEN JStr(<<>>) ELSE obj.vals[IndexOf(obj, col)]

\* obj.get(col, None) and first_object.get(col)
Get(obj, col) == IF IndexOf(obj, col) = 0 THEN JNull ELSE obj.vals[IndexOf(obj, col)]

\* lines 73-83 without the inner test that tells int from float
SqlTypeNumbersInteger(sample_value) ==
    IF IsInt(sample_value) \/ IsFloat(sample_value) THEN "INTEGER" ELSE "TEXT"

\* lines 73-83: the SQL type of a column from its sample value
SqlType(sample_value) ==
    IF IsInt(sample_value) \/ IsFloat(sample_value)
    THEN (IF IsInt(sample_value) THEN "INTEGER" ELSE "REAL")
    ELSE IF IsBool(sample_value) THEN "INTEGER"
    ELSE IF IsDict(sample_value) \/ IsList(sample_value) THEN "TEXT"
    ELSE "TEXT"

\* lines 68-87: the CREATE TABLE statement
CreateTable(table, columns, first_object) ==
    Piece("create", table,
          <<"id">> \o columns,
          <<"INTEGER PRIMARY KEY AUTOINCREMENT">> \o
              [i \in 1..Len(columns) |-> SqlType(Get(first_object, columns[i]))],
          <<>>, 0)

\* lines 97-111 without the test for None, which then reaches the last branch
EncodeValueNoNull(value) ==
    IF IsDict(value) \/ IsList(value) THEN <<"'">> \o Replace(Dumps(value)) \o <<"'">>
    ELSE IF IsBool(value) THEN IntChars(IF value.b THEN 1 ELSE 0)
    ELSE IF IsStr(value) THEN <<"'">> \o Replace(value.s) \o <<"'">>
    ELSE IF IsInt(value) \/ IsFloat(value) THEN PyStr(value)
    ELSE <<"'">> \o PyStr(value) \o <<"'">>

\* lines 97-111: the SQL literal of one value
EncodeValue(value) ==
    IF IsNone(value) THEN Chars("NULL")
    ELSE IF IsDict(value) \/ IsList(value) THEN <<"'">> \o Replace(Dumps(value)) \o <<"'">>
    ELSE IF IsBool(value) THEN IntChars(IF value.b THEN 1 ELSE 0)
    ELSE IF IsStr(value) THEN <<"'">> \o Replace(value.s) \o <<"'">>
    ELSE IF IsInt(value) \/ IsFloat(value) THEN PyStr(value)
    ELSE <<"'">> \o PyStr(value) \o <<"'">>

\* lines 93-113 with the column list taken from the record itself
InsertStmtOwnKeys(table, columns, obj) ==
    Piece("insert", table, obj.keys, <<>>,
          [i \in 1..Len(obj.keys) |-> EncodeValue(obj.vals[i])], 0)

\* lines 93-113: the INSERT statement of one record
InsertStmt(table, columns, obj) ==
    Piece("insert", table, columns, <<>>,
          [i \in 1..Len(columns) |-> EncodeValue(Get(obj, columns[i]))], 0)

\* line 118: the script of a value that is neither a dict nor a list
SimpleValue(table, value) ==
    << Piece("simple", "", <<>>, <<>>, <<>>, 0),
       Piece("insert", table, <<"value">>, <<>>,
             << <<"'">> \o PyStr(value) \o <<"'">> >>, 0) >>

\* lines 92-114 with the loop started after the first element
InsertStmtsSkipFirst(table, columns, records) ==
    [i \in 1..(Len(records) - 1) |-> InsertStmt(table, columns, records[i + 1])]

\* lines 92-114: one INSERT per element of the list, in order
InsertStmts(table, columns, records) ==
    [i \in 1..Len(records) |-> InsertStmt(table, columns, records[i])]

\* line 61 with the header kept in front of the comment
EmptyScriptWithHeader(table, t) == <<Header(table, t), NoData>>

\* line 61: the early return on an empty list drops the header
EmptyScript(table, t) == <<NoData>>

\* lines 47-120; t is the reading of datetime.now().  A value without the
\* method called on it (.keys() at line 65, .get() at line 95) raises
\* AttributeError; line 95 runs only when there is a column.
json_to_sql(data, table, t) ==
    LET records == IF IsDict(data) THEN <<data>> ELSE data.vals
    IN  IF IsDict(data) \/ IsList(data)
        THEN IF records = <<>> THEN Returned(EmptyScript(table, t))
             ELSE LET first_object == records[1]
                  IN  IF ~IsDict(first_object) THEN Raised("AttributeError")
                      ELSE LET columns == first_object.keys
                           IN  IF columns # <<>> /\
                                  \E i \in 1..Len(records) : ~IsDict(records[i])
                               THEN Raised("AttributeError")
                               ELSE Returned(
                                      << Header(table, t),
                                         CreateTable(table, columns, first_object),
                                         Piece("blank", "", <<>>, <<>>, <<>>, 0) >>
                                      \o InsertStmts(table, columns, records))
        ELSE Returned(SimpleValue(table, data))

(***************************************************************************)
(* Inputs.                                                                 *)
(***************************************************************************)
Alphabet == {"a", "'"}
Strings(n) == UNION {[1..k -> Alphabet] : k \in 0..n}

KeyNames == {"id", "name"}
KeySeqs(n) == {ks \in [1..n -> KeyNames] : \A i, j \in 1..n : ks[i] = ks[j] => i = j}

\* one value of every kind the code tells apart
AllValues ==
    { JNull, JBool(TRUE), JBool(FALSE), JInt(42), JReal(314), JReal(100),
      JStr(<<"a", "'">>), JList(<<JStr(<<"'">>)>>), JDict(<<"k">>, <<JStr(<<"'">>)>>) }

\* the values tried in records of arrays
ShapeValues ==
    {JNull, JBool(TRUE), JInt(42), JReal(314), JStr(<<"a", "'">>), JList(<<JStr(<<"'">>)>>)}

\* array elements that are not objects
NonObjects == {JNull, JInt(42), JStr(<<"a", "'">>), JList(<<>>)}

Dicts(n) == {JDict(ks, vs) : ks \in KeySeqs(n), vs \in [1..n -> ShapeValues]}

Cells(e) == IF IsDict(e) THEN Len(e.keys) ELSE 1

\* the elements of at most c cells
Elements(c) ==
    UNION {Dicts(n) : n \in 0..c} \cup (IF c >= 1 THEN NonObjects ELSE {})

RECURSIVE Lists(_, _)
\* the sequences of n elements with at most c cells in all
Lists(n, c) ==
    IF n = 0 THEN {<<>>}
    ELSE UNION {{<<e>> \o rest : rest \in Lists(n - 1, c - Cells(e))} : e \in Elements(c)}

Primitives ==
    {JNull, JBool(TRUE), JBool(FALSE), JInt(0), JInt(42), JReal(314), JReal(150)}
    \cup {JStr(s) : s \in Strings(MaxStrLen)}

Inputs ==
    {JList(l) : l \in UNION {Lists(n, MaxCells) : n \in 0..MaxRecords}}
    \cup UNION {Dicts(n) : n \in 0..MaxCells}
    \cup {JDict(<<k>>, <<v>>) : k \in KeyNames, v \in AllValues}
    \cup {JList(<<JDict(<<k>>, <<v>>)>>) : k \in KeyNames, v \in AllValues}
    \cup {JDict(<<"name">>, <<JStr(s)>>) : s \in Strings(MaxStrLen)}
    \cup Primitives

TableNames == {"users"}

(***************************************************************************)
(* The conversion as a state machine: the caller holds a decoded value and *)
(* a table name and calls json_to_sql, at most twice; each call reads the  *)
(* clock, which never runs backwards.  earlier keeps the outcome of the    *)
(* call before the last one.                                               *)
(***************************************************************************)
NoFiles == [p \in {} |-> <<>>]

Init ==
    /\ json_data \in Inputs
    /\ table_name \in TableNames
    /\ now = 0
    /\ sql_content = Pending
    /\ earlier = Pending
    /\ files = NoFiles
    /\ filename = ""

Call ==
    /\ earlier = Pending
    /\ \E t \in now..MaxClock :
         /\ now' = t
         /\ sql_content' = json_to_sql(json_data, table_name, t)
    /\ earlier' = sql_content
    /\ UNCHANGED <<json_data, table_name, files, filename>>

Next == Call

Spec == Init /\ [][Next]_vars

(***************************************************************************)
(* save_sql_to_file on a directory.  files maps the paths that exist to    *)
(* their contents; a run of the program saves the script it converted.     *)
(***************************************************************************)
RECURSIVE IntStr(_)
\* the f-string rendering of counter
IntStr(n) == IF n < 10 THEN Digit(n) ELSE IntStr(n \div 10) \o Digit(n % 10)

\* the first name tried, whether or not it exists
FreeFilenameUnchecked(existing, table, name, counter) == name

RECURSIVE FreeFilename(_, _, _, _)
\* lines 128-132: the loop that looks for a path that does not exist
FreeFilename(existing, table, name, counter) ==
    IF name \in existing
    THEN FreeFilename(existing, table, table \o "_" \o IntStr(counter) \o ".sql", counter + 1)
    ELSE name

\* lines 125-139: open(filename, 'w') creates the file or replaces its contents
save_sql_to_file ==
    /\ sql_content.status = "returned"
    /\ Cardinality(DOMAIN files) < MaxFiles
    /\ LET name == FreeFilename(DOMAIN files, table_name, table_name \o ".sql", 1)
       IN  /\ files' = [p \in DOMAIN files \cup {name} |->
                          IF p = name THEN sql_content.text ELSE files[p]]
           /\ filename' = name
    /\ UNCHANGED <<json_data, table_name, now, sql_content, earlier>>

\* lines 140-142: open fails, nothing is written and the program exits
SaveFails ==
    /\ sql_content.status = "returned"
    /\ filename' = ""
    /\ UNCHANGED <<json_data, table_name, now, sql_content, earlier, files>>

SaveTables == {"t", "t_1"}
SavePaths == {"t.sql", "t_1.sql", "t_2.sql", "t_1_1.sql"}
SaveInputs == {JInt(42), JList(<<>>)}
\* what a file left by something else holds
OldContent == <<>>

InitSave ==
    /\ json_data \in SaveInputs
    /\ table_name \in SaveTables
    /\ now = 0
    /\ sql_content = json_to_sql(json_data, table_name, now)
    /\ earlier = Pending
    /\ \E S \in SUBSET SavePaths :
         /\ Cardinality(S) <= MaxFiles
         /\ files = [p \in S |-> OldContent]
    /\ filename = ""

NextSave == save_sql_to_file \/ SaveFails

SpecSave == InitSave /\ [][NextSave]_vars

(***************************************************************************)
(* What the claims speak of.                                               *)
(***************************************************************************)
\* the normalized record sequence of the input (a primitive has none)
RecordSequence ==
    IF IsDict(json_data) THEN <<json_data>>
    ELSE IF IsList(json_data) THEN json_data.vals
    ELSE <<>>

IsRecordInput == IsDict(json_data) \/ IsList(json_data)

\* the call returned a script for a record sequence that starts with an object
ScriptOfRecords ==
    /\ sql_content.status = "returned"
    /\ IsRecordInput
    /\ RecordSequence # <<>>
    /\ IsDict(RecordSequence[1])

IsInsert(piece) == piece.stmt = "insert"
IsCreate(piece) == piece.stmt = "create"
Inserts(text) == SelectSeq(text, IsInsert)
Creates(text) == SelectSeq(text, IsCreate)

\* the keys of the first record, in its order
FirstKeys == RecordSequence[1].keys

HasKey(obj, col) == \E i \in 1..Len(obj.keys) : obj.keys[i] = col

NullLiteral == <<"N", "U", "L", "L">>

\* C1: every INSERT lists exactly the keys of the first record, in its order,
\* and the CREATE TABLE statement lists the same columns after the surrogate
\* id, whatever keys the later records have.
C1_ColumnsFixedByFirstRecord ==
    ScriptOfRecords =>
        /\ \A i \in 1..Len(sql_content.text) :
             /\ IsInsert(sql_content.text[i]) => sql_content.text[i].columns = FirstKeys
             /\ IsCreate(sql_content.text[i]) =>
                    /\ Head(sql_content.text[i].columns) = "id"
                    /\ Tail(sql_content.text[i].columns) = FirstKeys
        /\ Inserts(sql_content.text) # <<>>
        /\ Creates(sql_content.text) # <<>>

\* a script for two records, the second with a key the first lacks and
\* without a key the first has
C1_Witness ==
    /\ ScriptOfRecords
    /\ Len(RecordSequence) = 2
    /\ IsDict(RecordSequence[2])
    /\ \E k \in KeyNames : HasKey(RecordSequence[1], k) /\ ~HasKey(RecordSequence[2], k)
    /\ \E k \in KeyNames : ~HasKey(RecordSequence[1], k) /\ HasKey(RecordSequence[2], k)

\* C2: where a record has no key for a column, its INSERT holds the unquoted
\* NULL at that position, and every INSERT has one value per column.
C2_MissingKeyIsNULL ==
    ScriptOfRecords =>
        /\ Len(Inserts(sql_content.text)) = Len(RecordSequence)
        /\ \A i \in 1..Len(RecordSequence) :
             LET insert == Inserts(sql_content.text)[i]
             IN  /\ Len(insert.values) = Len(FirstKeys)
                 /\ \A j \in 1..Len(FirstKeys) :
                      ~HasKey(RecordSequence[i], FirstKeys[j]) =>
                          insert.values[j] = NullLiteral

\* a script where some record lacks a key of the first record
C2_Witness ==
    /\ ScriptOfRecords
    /\ \E i \in 1..Len(RecordSequence) : \E j \in 1..Len(FirstKeys) :
         /\ IsDict(RecordSequence[i])
         /\ ~HasKey(RecordSequence[i], FirstKeys[j])
         /\ Inserts(sql_content.text)[i].values[j] = NullLiteral

RECURSIVE Unescape(_)
\* the body of a SQL string literal read back: a doubled quote is one quote,
\* a quote on its own does not belong in a body and is marked "?"
Unescape(body) ==
    IF body = <<>> THEN <<>>
    ELSE IF Head(body) # "'" THEN <<Head(body)>> \o Unescape(Tail(body))
    ELSE IF Len(body) >= 2 /\ body[2] = "'" THEN <<"'">> \o Unescape(Tail(Tail(body)))
    ELSE <<"?">> \o Unescape(Tail(body))

\* a SQL string literal read back by a parser of SQL string literals
ParseSqlLiteral(literal) ==
    IF Len(literal) >= 2 /\ Head(literal) = "'" /\ literal[Len(literal)] = "'"
    THEN Unescape(SubSeq(literal, 2, Len(literal) - 1))
    ELSE <<"?">>

\* C3: the literal emitted for a string (a string field of a record, a bare
\* string given as the whole input) reads back as the original string.
C3_StringRoundTrip ==
    sql_content.status = "returned" =>
        /\ IsStr(json_data) =>
             ParseSqlLiteral(Inserts(sql_content.text)[1].values[1]) = json_data.s
        /\ ScriptOfRecords =>
             \A i \in 1..Len(RecordSequence) : \A j \in 1..Len(FirstKeys) :
                 LET value == Get(RecordSequence[i], FirstKeys[j])
                 IN  IsStr(value) =>
                         ParseSqlLiteral(Inserts(sql_content.text)[i].values[j]) = value.s

\* the SQL type the claim gives for a value of the first record
ClaimedType(value) ==
    CASE value.kind = "bool" -> "INTEGER"
      [] value.kind = "int" -> "INTEGER"
      [] value.kind = "real" -> "REAL"
      [] OTHER -> "TEXT"

\* C4: the type of every column comes from the first record's value for its
\* key: boolean and integer give INTEGER, another number REAL, the rest TEXT;
\* the CREATE TABLE statement is a function of the table and the first record.
C4_TypesFromFirstRecord ==
    ScriptOfRecords =>
        /\ Len(Creates(sql_content.text)) = 1
        /\ LET create == Creates(sql_content.text)[1]
           IN  /\ create.table = table_name
               /\ create.columns = <<"id">> \o FirstKeys
               /\ Len(create.types) = Len(FirstKeys) + 1
               /\ create.types[1] = "INTEGER PRIMARY KEY AUTOINCREMENT"
               /\ \A j \in 1..Len(FirstKeys) :
                    create.types[j + 1] = ClaimedType(RecordSequence[1].vals[j])

\* a script for two records that hold values of different types for a key:
\* a number that is not an integer first, something that is not a number second
C4_Witness ==
    /\ ScriptOfRecords
    /\ Len(RecordSequence) = 2
    /\ IsDict(RecordSequence[2])
    /\ \E k \in KeyNames :
         /\ HasKey(RecordSequence[1], k)
         /\ HasKey(RecordSequence[2], k)
         /\ Get(RecordSequence[1], k).kind = "real"
         /\ Get(RecordSequence[2], k).kind \in {"str", "null", "list"}
         /\ Creates(sql_content.text)[1].types[IndexOf(RecordSequence[1], k) + 1] = "REAL"

\* C5: N objects give one CREATE TABLE followed by N INSERTs, the i-th from
\* the i-th record; no record gives the comment "-- No data to insert" alone.
C5_OneInsertPerRecord ==
    (sql_content.status = "returned" /\ IsRecordInput) =>
        IF RecordSequence = <<>>
        THEN sql_content.text = <<Piece("nodata", "", <<>>, <<>>, <<>>, 0)>>
        ELSE LET text == sql_content.text
                 N == Len(RecordSequence)
             IN  /\ Len(text) = N + 3
                 /\ text[1].stmt = "header"
                 /\ text[2].stmt = "create"
                 /\ text[3].stmt = "blank"
                 /\ \A i \in 1..N :
                      /\ text[3 + i].stmt = "insert"
                      /\ text[3 + i].table = table_name
                      /\ Len(text[3 + i].values) = Len(FirstKeys)
                      /\ \A j \in 1..Len(FirstKeys) :
                           text[3 + i].values[j] =
                               EncodeValue(Get(RecordSequence[i], FirstKeys[j]))

\* a script for two objects that give different INSERT statements
C5_Witness ==
    /\ ScriptOfRecords
    /\ Len(RecordSequence) = 2
    /\ IsDict(RecordSequence[2])
    /\ Len(Inserts(sql_content.text)) = 2
    /\ Inserts(sql_content.text)[1] # Inserts(sql_content.text)[2]

\* C6: an array whose first element is not an object is handled on the
\* single-column path: the call returns a script that inserts into value.
C6_NonObjectFallsBack ==
    (/\ sql_content.status # "pending"
     /\ IsList(json_data)
     /\ json_data.vals # <<>>
     /\ ~IsDict(json_data.vals[1])) =>
        /\ sql_content.status = "returned"
        /\ \E i \in 1..Len(sql_content.text) :
             /\ IsInsert(sql_content.text[i])
             /\ sql_content.text[i].columns = <<"value">>

\* the positions of the INSERTs where a record holds null under a key of the
\* first record
NullPositions ==
    {<<i, j>> \in (1..Len(RecordSequence)) \X (1..Len(FirstKeys)) :
        /\ HasKey(RecordSequence[i], FirstKeys[j])
        /\ IsNone(Get(RecordSequence[i], FirstKeys[j]))}

\* C7 as stated: a key present with the value null gives a single-quoted
\* literal, not the unquoted NULL of an absent key.
C7_NullIsQuoted ==
    ScriptOfRecords =>
        \A p \in NullPositions :
            LET literal == Inserts(sql_content.text)[p[1]].values[p[2]]
            IN  /\ literal # NullLiteral
                /\ Head(literal) = "'"
                /\ literal[Len(literal)] = "'"

\* C7 amended: a key present with the value null gives the unquoted NULL,
\* the same literal as an absent key.
C7_NullIsNULL ==
    ScriptOfRecords =>
        \A p \in NullPositions :
            Inserts(sql_content.text)[p[1]].values[p[2]] = NullLiteral

\* a script for a record that holds null under a key of the first record
C7_Witness == ScriptOfRecords /\ NullPositions # {}

\* C8: a key id of the first record is not a data column: no INSERT lists
\* id, and CREATE TABLE declares no column twice.
C8_IdIsNotDataColumn ==
    (ScriptOfRecords /\ HasKey(RecordSequence[1], "id")) =>
        /\ \A i \in 1..Len(sql_content.text) :
             IsInsert(sql_content.text[i]) =>
                 \A j \in 1..Len(sql_content.text[i].columns) :
                     sql_content.text[i].columns[j] # "id"
        /\ LET columns == Creates(sql_content.text)[1].columns
           IN  \A i, j \in 1..Len(columns) : columns[i] = columns[j] => i = j

\* a script with the time of its header line struck out
WithoutTime(outcome) ==
    [outcome EXCEPT !.text =
        [i \in 1..Len(outcome.text) |->
            IF outcome.text[i].stmt = "header"
            THEN [outcome.text[i] EXCEPT !.time = 0]
            ELSE outcome.text[i]]]

HasHeader(outcome) ==
    \E i \in 1..Len(outcome.text) : outcome.text[i].stmt = "header"

\* C9 as stated: two calls with the same value and table name return the
\* same text, whenever they are made.
C9_SameOutput == earlier.status # "pending" => sql_content = earlier

\* C9 amended: two calls with the same value and table name return texts
\* that differ at most in the time of the "-- Generated:" header line; the
\* texts without that line (empty array, primitive) are the same.
C9_SameButGeneratedTime ==
    earlier.status # "pending" =>
        /\ WithoutTime(sql_content) = WithoutTime(earlier)
        /\ HasHeader(sql_content) <=> HasHeader(earlier)
        /\ (~IsRecordInput \/ RecordSequence = <<>>) => sql_content = earlier

\* two calls that returned a script with a header, at different times
C9_Witness ==
    /\ earlier.status = "returned"
    /\ sql_content.status = "returned"
    /\ HasHeader(sql_content)
    /\ sql_content.text[1].time # earlier.text[1].time

\* the name save_sql_to_file is to pick: <table>.sql, then <table>_k.sql
SaveName(k) ==
    IF k = 0 THEN table_name \o ".sql"
    ELSE table_name \o "_" \o IntStr(k) \o ".sql"

\* C10: a save never writes to a path that exists: it creates <table>.sql if
\* that is free, otherwise <table>_k.sql for the least free k >= 1, and
\* leaves every file that existed as it was.
C10_SaveNeverOverwrites ==
    [][files' # files =>
        /\ filename' \notin DOMAIN files
        /\ \E k \in 0..Cardinality(DOMAIN files) :
             /\ filename' = SaveName(k)
             /\ \A j \in 0..(k - 1) : SaveName(j) \in DOMAIN files
        /\ DOMAIN files' = DOMAIN files \cup {filename'}
        /\ files'[filename'] = sql_content.text
        /\ \A p \in DOMAIN files : files'[p] = files[p]]_vars

\* a save that had to skip two names that exist, next to the files it kept
C10_Witness ==
    /\ filename = SaveName(2)
    /\ filename \in DOMAIN files
    /\ files[filename] = sql_content.text
    /\ files[SaveName(0)] = OldContent
    /\ files[SaveName(1)] = OldContent

====
